---- MODULE Spec2Model ----
(***************************************************************************)
(* Model of the account ledger of bank-app (src/main.go): the Account and  *)
(* Transaction records, the MemoryStorage map behind the Storage           *)
(* interface, and the AccountServiceImpl operations Deposit, Withdraw and  *)
(* Transfer.                                                               *)
(*                                                                         *)
(* Amounts and balances are float64 in the source.  A float64 is modelled  *)
(* as a record: a finite value (small integers, which float64 represents   *)
(* and adds exactly), +Inf, -Inf or NaN, with the IEEE-754 rules for       *)
(* +, -, <, <= and == that Go applies to them.                             *)
(***************************************************************************)
EXTENDS Integers, Sequences, FiniteSets, TLC

\* ---- bounds of the model ------------------------------------------------
MaxAccounts == 2      \* accounts created by createAccount
MaxClock    == 1      \* largest reading of time.Now().UnixNano()
MaxCalls    == 2      \* calls of Deposit / Withdraw / Transfer in a run
MaxAmount   == 1      \* largest finite amount a caller passes
NThreads    == 2      \* threads that call the service concurrently
MaxHistory  == 3      \* transactions of an account whose statement is made

VARIABLES
    heap,       \* the allocated Account objects; a *Account is an index
    accounts,   \* MemoryStorage.accounts: map from ID to *Account
    calls,      \* number of service calls made so far
    ret,        \* the last service call: operation, arguments, returned error
    saves,      \* the SaveAccount calls issued by the last service call
    got,        \* what the last LoadAccount or GetStatement returned
    mutex,      \* MemoryStorage.mutex: the writer and the readers holding it
    threads     \* per thread: position in its call, arguments and locals

vars == <<heap, accounts, calls, ret, saves, got, mutex, threads>>

\* ---- float64 --------------------------------------------------------------
Fin(n) == [k |-> "fin", v |-> n]
NaN    == [k |-> "nan", v |-> 0]
PInf   == [k |-> "inf", v |-> 1]
NInf   == [k |-> "inf", v |-> -1]
Zero   == Fin(0)

\* a + b
FAdd(a, b) ==
    IF a.k = "nan" \/ b.k = "nan" THEN NaN
    ELSE IF a.k = "inf" /\ b.k = "inf" THEN (IF a.v = b.v THEN a ELSE NaN)
    ELSE IF a.k = "inf" THEN a
    ELSE IF b.k = "inf" THEN b
    ELSE Fin(a.v + b.v)

\* -a
FNeg(a) == IF a.k = "nan" THEN NaN ELSE [k |-> a.k, v |-> 0 - a.v]

\* a - b
FSub(a, b) == FAdd(a, FNeg(b))

\* a < b  (false when either side is NaN)
FLt(a, b) ==
    /\ a.k # "nan"
    /\ b.k # "nan"
    /\ \/ a.k = "fin" /\ b.k = "fin" /\ a.v < b.v
       \/ a = NInf /\ b # NInf
       \/ b = PInf /\ a # PInf

\* a == b  (false when either side is NaN)
FEq(a, b) == a.k # "nan" /\ b.k # "nan" /\ a = b

\* a <= b
FLe(a, b) == FLt(a, b) \/ FEq(a, b)

\* the amounts a caller passes (strconv.ParseFloat yields NaN and Inf too)
Amounts == {Fin(n) : n \in -1..MaxAmount} \cup {NaN, PInf}

\* ---- errors ---------------------------------------------------------------
nil                    == "nil"
ErrInsufficientFunds   == "ErrInsufficientFunds"
ErrInvalidAmount       == "ErrInvalidAmount"
ErrAccountNotFound     == "ErrAccountNotFound"
ErrSameAccountTransfer == "ErrSameAccountTransfer"
\* errors of a Storage implementation other than MemoryStorage
ErrStorageIO           == "ErrStorageIO"
ErrStorageFull         == "ErrStorageFull"

\* what SaveAccount of a Storage may return
SaveResults == {nil, ErrStorageIO, ErrStorageFull}

\* ---- transaction types ----------------------------------------------------
DepositType  == "DEPOSIT"
WithdrawType == "WITHDRAW"
TransferType == "TRANSFER"

\* ---- entity model ---------------------------------------------------------
\* fmt.Sprintf("ACC%d", time.Now().UnixNano())
generateID(now) == [tag |-> "ACC", n |-> now]

NewAccount(ownerName, now) ==
    [ID |-> generateID(now), OwnerName |-> ownerName,
     Balance |-> Zero, Transactions |-> <<>>]

\* descriptions: a fixed text, or a text that embeds an account ID
Description(text, id) == [text |-> text, id |-> id]
NoID == [tag |-> "", n |-> 0]

\* The two readings of the clock that AddTransaction stores, in ID and in
\* Timestamp, are not told apart from one another or from earlier readings:
\* nothing but the text of GetStatement reads them back.
AddTransaction(a, tType, amount, description) ==
    [a EXCEPT !.Transactions =
        Append(@, [ID |-> "TX<now>", Type |-> tType, Amount |-> amount,
                   Timestamp |-> "now", Description |-> description])]

\* ---- storage --------------------------------------------------------------
\* SaveAccount that makes a new map for the entry it stores
SaveAccount_Replaces(m, p, id, err) ==
    IF err = nil THEN (id :> p) ELSE m

\* The map after SaveAccount(account) returned err: MemoryStorage stores the
\* pointer under the account's ID and returns nil; a Storage that fails
\* stores nothing.
SaveAccount(m, p, id, err) ==
    IF err = nil THEN (id :> p) @@ m ELSE m

Ptrs == 1..Len(heap)

Threads == 1..NThreads

\* a thread that is not inside a call
Off == [pc |-> "off", op |-> "none", home |-> 0, to |-> 0, amount |-> Zero,
        id |-> NoID, bal |-> Zero, txs |-> <<>>, a |-> 0, account |-> 0,
        result |-> 0, list |-> <<>>, err |-> nil]

Unlocked == [w |-> 0, r |-> {}]

Call(op, h, to, amount, err) ==
    [op |-> op, home |-> h, to |-> to, amount |-> amount, err |-> err]

\* the result of a read: LoadAccount returns (account, err), with account 0
\* for the nil pointer; GetStatement returns the lines of its text; call is
\* the number of the call that returned it
Read(op, id, account, err, lines, call) ==
    [op |-> op, id |-> id, account |-> account, err |-> err, lines |-> lines,
     call |-> call]

NoRead == Read("none", NoID, 0, nil, <<>>, 0)

\* ---- initial state: main() after NewMemoryStorage() -----------------------
Init ==
    /\ heap = <<>>
    /\ accounts = <<>>
    /\ calls = 0
    /\ ret = Call("none", 0, 0, Zero, nil)
    /\ saves = <<>>
    /\ got = NoRead
    /\ mutex = Unlocked
    /\ threads = [t \in Threads |-> Off]

\* the reading the newest account got its ID from
LastReading == IF heap = <<>> THEN 0 ELSE heap[Len(heap)].ID.n

\* what time.Now().UnixNano() may return next: the last reading again, or
\* a later one (IDs are compared for equality only, so one later reading
\* stands for all of them)
Readings == {n \in {LastReading, LastReading + 1} : n <= MaxClock}

\* createAccount: NewAccount, then SaveAccount on the MemoryStorage; now is
\* what time.Now().UnixNano() returns to generateID
createAccount(ownerName, now) ==
    /\ Len(heap) < MaxAccounts
    /\ IF ownerName = ""
       THEN UNCHANGED <<heap, accounts>>
       ELSE /\ heap' = Append(heap, NewAccount(ownerName, now))
            /\ accounts' = SaveAccount(accounts, Len(heap) + 1,
                                       generateID(now), nil)
    /\ UNCHANGED <<calls, ret, saves, got, mutex, threads>>

\* ---- ledger service -------------------------------------------------------
\* Each operation is one step.  saveErr is what the SaveAccount call of the
\* bound Storage returns; it is drawn where the call is made.  SaveAccount
\* takes and releases the mutex within the step, which leaves it unlocked.
\* Deposit with the amount check written amount < 0
Deposit_AcceptsZero(h, amount) ==
    /\ calls < MaxCalls
    /\ calls' = calls + 1
    /\ IF FLt(amount, Zero)
       THEN /\ ret' = Call("Deposit", h, 0, amount, ErrInvalidAmount)
            /\ saves' = <<>>
            /\ UNCHANGED <<heap, accounts>>
       ELSE \E saveErr \in SaveResults :
            /\ heap' = [heap EXCEPT ![h] =
                   AddTransaction([@ EXCEPT !.Balance = FAdd(@, amount)],
                                  DepositType, amount,
                                  Description("deposit", NoID))]
            /\ accounts' = SaveAccount(accounts, h, heap[h].ID, saveErr)
            /\ saves' = <<[account |-> h, err |-> saveErr]>>
            /\ ret' = Call("Deposit", h, 0, amount, saveErr)
    /\ UNCHANGED <<got, mutex, threads>>

\* Deposit that drops the result of SaveAccount and returns nil
Deposit_SwallowsError(h, amount) ==
    /\ calls < MaxCalls
    /\ calls' = calls + 1
    /\ IF FLe(amount, Zero)
       THEN /\ ret' = Call("Deposit", h, 0, amount, ErrInvalidAmount)
            /\ saves' = <<>>
            /\ UNCHANGED <<heap, accounts>>
       ELSE \E saveErr \in SaveResults :
            /\ heap' = [heap EXCEPT ![h] =
                   AddTransaction([@ EXCEPT !.Balance = FAdd(@, amount)],
                                  DepositType, amount,
                                  Description("deposit", NoID))]
            /\ accounts' = SaveAccount(accounts, h, heap[h].ID, saveErr)
            /\ saves' = <<[account |-> h, err |-> saveErr]>>
            /\ ret' = Call("Deposit", h, 0, amount, nil)
    /\ UNCHANGED <<got, mutex, threads>>

\* Deposit on a service that holds its Account by value: the copy is changed
\* and saved, the stored account is not
Deposit_OnCopy(h, amount) ==
    /\ calls < MaxCalls
    /\ calls' = calls + 1
    /\ IF FLe(amount, Zero)
       THEN /\ ret' = Call("Deposit", h, 0, amount, ErrInvalidAmount)
            /\ saves' = <<>>
            /\ UNCHANGED <<heap, accounts>>
       ELSE \E saveErr \in SaveResults :
            /\ heap' = Append(heap,
                   AddTransaction([heap[h] EXCEPT !.Balance = FAdd(@, amount)],
                                  DepositType, amount,
                                  Description("deposit", NoID)))
            /\ accounts' = SaveAccount(accounts, Len(heap) + 1, heap[h].ID,
                                       saveErr)
            /\ saves' = <<[account |-> Len(heap) + 1, err |-> saveErr]>>
            /\ ret' = Call("Deposit", h, 0, amount, saveErr)
    /\ UNCHANGED <<got, mutex, threads>>

\* AccountServiceImpl.Deposit
Deposit(h, amount) ==
    /\ calls < MaxCalls
    /\ calls' = calls + 1
    /\ IF FLe(amount, Zero)
       THEN /\ ret' = Call("Deposit", h, 0, amount, ErrInvalidAmount)
            /\ saves' = <<>>
            /\ UNCHANGED <<heap, accounts>>
       ELSE \E saveErr \in SaveResults :
            /\ heap' = [heap EXCEPT ![h] =
                   AddTransaction([@ EXCEPT !.Balance = FAdd(@, amount)],
                                  DepositType, amount,
                                  Description("deposit", NoID))]
            /\ accounts' = SaveAccount(accounts, h, heap[h].ID, saveErr)
            /\ saves' = <<[account |-> h, err |-> saveErr]>>
            /\ ret' = Call("Deposit", h, 0, amount, saveErr)
    /\ UNCHANGED <<got, mutex, threads>>

\* Withdraw without the check of the balance
Withdraw_NoFundsCheck(h, amount) ==
    /\ calls < MaxCalls
    /\ calls' = calls + 1
    /\ IF FLe(amount, Zero)
       THEN /\ ret' = Call("Withdraw", h, 0, amount, ErrInvalidAmount)
            /\ saves' = <<>>
            /\ UNCHANGED <<heap, accounts>>
       ELSE \E saveErr \in SaveResults :
            /\ heap' = [heap EXCEPT ![h] =
                   AddTransaction([@ EXCEPT !.Balance = FSub(@, amount)],
                                  WithdrawType, amount,
                                  Description("withdraw", NoID))]
            /\ accounts' = SaveAccount(accounts, h, heap[h].ID, saveErr)
            /\ saves' = <<[account |-> h, err |-> saveErr]>>
            /\ ret' = Call("Withdraw", h, 0, amount, saveErr)
    /\ UNCHANGED <<got, mutex, threads>>

Withdraw(h, amount) ==
    /\ calls < MaxCalls
    /\ calls' = calls + 1
    /\ IF FLe(amount, Zero)
       THEN /\ ret' = Call("Withdraw", h, 0, amount, ErrInvalidAmount)
            /\ saves' = <<>>
            /\ UNCHANGED <<heap, accounts>>
       ELSE IF FLt(heap[h].Balance, amount)
       THEN /\ ret' = Call("Withdraw", h, 0, amount, ErrInsufficientFunds)
            /\ saves' = <<>>
            /\ UNCHANGED <<heap, accounts>>
       ELSE \E saveErr \in SaveResults :
            /\ heap' = [heap EXCEPT ![h] =
                   AddTransaction([@ EXCEPT !.Balance = FSub(@, amount)],
                                  WithdrawType, amount,
                                  Description("withdraw", NoID))]
            /\ accounts' = SaveAccount(accounts, h, heap[h].ID, saveErr)
            /\ saves' = <<[account |-> h, err |-> saveErr]>>
            /\ ret' = Call("Withdraw", h, 0, amount, saveErr)
    /\ UNCHANGED <<got, mutex, threads>>

\* the two accounts after the debit of h and the credit of to
TransferMutate(h, to, amount) ==
    LET debited ==
            [heap EXCEPT ![h] =
                AddTransaction([@ EXCEPT !.Balance = FSub(@, amount)],
                               TransferType, amount,
                               Description("transfer to", heap[to].ID))]
    IN  [debited EXCEPT ![to] =
            AddTransaction([@ EXCEPT !.Balance = FAdd(@, amount)],
                           TransferType, amount,
                           Description("transfer from", heap[h].ID))]

\* Transfer without the check of the two IDs
Transfer_NoSameCheck(h, to, amount) ==
    /\ calls < MaxCalls
    /\ calls' = calls + 1
    /\ IF FLe(amount, Zero)
       THEN /\ ret' = Call("Transfer", h, to, amount, ErrInvalidAmount)
            /\ saves' = <<>>
            /\ UNCHANGED <<heap, accounts>>
       ELSE IF FLt(heap[h].Balance, amount)
       THEN /\ ret' = Call("Transfer", h, to, amount, ErrInsufficientFunds)
            /\ saves' = <<>>
            /\ UNCHANGED <<heap, accounts>>
       ELSE \E saveErr1 \in SaveResults :
            /\ heap' = TransferMutate(h, to, amount)
            /\ IF saveErr1 # nil
               THEN /\ accounts' = SaveAccount(accounts, h, heap[h].ID,
                                               saveErr1)
                    /\ saves' = <<[account |-> h, err |-> saveErr1]>>
                    /\ ret' = Call("Transfer", h, to, amount, saveErr1)
               ELSE \E saveErr2 \in SaveResults :
                    /\ accounts' =
                           SaveAccount(SaveAccount(accounts, h, heap[h].ID,
                                                   saveErr1),
                                       to, heap[to].ID, saveErr2)
                    /\ saves' = <<[account |-> h, err |-> saveErr1],
                                  [account |-> to, err |-> saveErr2]>>
                    /\ ret' = Call("Transfer", h, to, amount, saveErr2)
    /\ UNCHANGED <<got, mutex, threads>>

\* Transfer that ignores the result of SaveAccount(home) and goes on to save
\* the destination
Transfer_SavesBoth(h, to, amount) ==
    /\ calls < MaxCalls
    /\ calls' = calls + 1
    /\ IF FLe(amount, Zero)
       THEN /\ ret' = Call("Transfer", h, to, amount, ErrInvalidAmount)
            /\ saves' = <<>>
            /\ UNCHANGED <<heap, accounts>>
       ELSE IF FLt(heap[h].Balance, amount)
       THEN /\ ret' = Call("Transfer", h, to, amount, ErrInsufficientFunds)
            /\ saves' = <<>>
            /\ UNCHANGED <<heap, accounts>>
       ELSE IF heap[h].ID = heap[to].ID
       THEN /\ ret' = Call("Transfer", h, to, amount, ErrSameAccountTransfer)
            /\ saves' = <<>>
            /\ UNCHANGED <<heap, accounts>>
       ELSE \E saveErr1 \in SaveResults, saveErr2 \in SaveResults :
            /\ heap' = TransferMutate(h, to, amount)
            /\ accounts' =
                   SaveAccount(SaveAccount(accounts, h, heap[h].ID, saveErr1),
                               to, heap[to].ID, saveErr2)
            /\ saves' = <<[account |-> h, err |-> saveErr1],
                          [account |-> to, err |-> saveErr2]>>
            /\ ret' = Call("Transfer", h, to, amount, saveErr2)
    /\ UNCHANGED <<got, mutex, threads>>

Transfer(h, to, amount) ==
    /\ calls < MaxCalls
    /\ calls' = calls + 1
    /\ IF FLe(amount, Zero)
       THEN /\ ret' = Call("Transfer", h, to, amount, ErrInvalidAmount)
            /\ saves' = <<>>
            /\ UNCHANGED <<heap, accounts>>
       ELSE IF FLt(heap[h].Balance, amount)
       THEN /\ ret' = Call("Transfer", h, to, amount, ErrInsufficientFunds)
            /\ saves' = <<>>
            /\ UNCHANGED <<heap, accounts>>
       ELSE IF heap[h].ID = heap[to].ID
       THEN /\ ret' = Call("Transfer", h, to, amount, ErrSameAccountTransfer)
            /\ saves' = <<>>
            /\ UNCHANGED <<heap, accounts>>
       ELSE \E saveErr1 \in SaveResults :
            /\ heap' = TransferMutate(h, to, amount)
            /\ IF saveErr1 # nil
               THEN /\ accounts' = SaveAccount(accounts, h, heap[h].ID,
                                               saveErr1)
                    /\ saves' = <<[account |-> h, err |-> saveErr1]>>
                    /\ ret' = Call("Transfer", h, to, amount, saveErr1)
               ELSE \E saveErr2 \in SaveResults :
                    /\ accounts' =
                           SaveAccount(SaveAccount(accounts, h, heap[h].ID,
                                                   saveErr1),
                                       to, heap[to].ID, saveErr2)
                    /\ saves' = <<[account |-> h, err |-> saveErr1],
                                  [account |-> to, err |-> saveErr2]>>
                    /\ ret' = Call("Transfer", h, to, amount, saveErr2)
    /\ UNCHANGED <<got, mutex, threads>>

Next ==
    \/ \E ownerName \in {"", "owner"}, now \in Readings :
          createAccount(ownerName, now)
    \/ \E h \in Ptrs, a \in Amounts : Deposit(h, a)
    \/ \E h \in Ptrs, a \in Amounts : Withdraw(h, a)
    \/ \E h \in Ptrs, to \in Ptrs, a \in Amounts : Transfer(h, to, a)

Spec == Init /\ [][Next]_vars

\* ---- reads: LoadAccount and GetStatement ----------------------------------
\* The account IDs a caller may ask for: those generateID can have produced
\* and those it has not
IDs == {generateID(n) : n \in 0..MaxClock}

\* MemoryStorage.LoadAccount: the stored pointer, or nil (0) and
\* ErrAccountNotFound; the read lock is taken and released within the step
LoadAccount(accountID) ==
    /\ calls < MaxCalls
    /\ calls' = calls + 1
    /\ got' = IF accountID \in DOMAIN accounts
              THEN Read("LoadAccount", accountID, accounts[accountID], nil,
                        <<>>, calls + 1)
              ELSE Read("LoadAccount", accountID, 0, ErrAccountNotFound,
                        <<>>, calls + 1)
    /\ UNCHANGED <<heap, accounts, ret, saves, mutex, threads>>

\* fmt's %.2f of a float64 that holds an integer, NaN or an infinity
Fmt2(a) ==
    CASE a.k = "fin" -> ToString(a.v) \o ".00"
      [] a.k = "nan" -> "NaN"
      [] a.k = "inf" -> IF a.v > 0 THEN "+Inf" ELSE "-Inf"

\* the four header lines of a statement (the third ends in an empty line)
StatementHeader(a) ==
    << [line |-> "account", text |-> a.ID],
       [line |-> "owner", text |-> a.OwnerName],
       [line |-> "balance", text |-> Fmt2(a.Balance)],
       [line |-> "history", text |-> ""] >>

NoTransactionsLine == [line |-> "none", text |-> ""]

\* the line GetStatement writes for one transaction
TransactionLine(tx) ==
    [line |-> "tx", text |-> <<tx.Type, Fmt2(tx.Amount),
                               <<"02.01.2006 15:04:05", tx.Timestamp>>,
                               tx.Description>>]

\* GetStatement without the branch for an empty history
Statement_NoEmptyCheck(a) ==
    StatementHeader(a)
        \o [i \in 1..Len(a.Transactions) |-> TransactionLine(a.Transactions[i])]

\* the text GetStatement builds for account a, as its sequence of lines
Statement(a) ==
    IF Len(a.Transactions) = 0
    THEN Append(StatementHeader(a), NoTransactionsLine)
    ELSE StatementHeader(a)
         \o [i \in 1..Len(a.Transactions) |->
                TransactionLine(a.Transactions[i])]

\* AccountServiceImpl.GetStatement of the service bound to account h
GetStatement(h) ==
    /\ calls < MaxCalls
    /\ calls' = calls + 1
    /\ got' = Read("GetStatement", heap[h].ID, h, nil, Statement(heap[h]),
                    calls + 1)
    /\ UNCHANGED <<heap, accounts, ret, saves, mutex, threads>>

\* the amounts of the calls that are interleaved with the reads: one that
\* fails the amount check, the largest finite one, and the two that are not
\* finite
StoreAmounts == {Zero, Fin(MaxAmount), PInf, NaN}

\* the ledger operations together with the reads
NextStore ==
    \/ \E ownerName \in {"", "owner"}, now \in Readings :
           createAccount(ownerName, now)
    \/ \E h \in Ptrs, amount \in StoreAmounts : Deposit(h, amount)
    \/ \E h \in Ptrs, amount \in StoreAmounts : Withdraw(h, amount)
    \/ \E h \in Ptrs, to \in Ptrs, amount \in StoreAmounts :
           Transfer(h, to, amount)
    \/ \E accountID \in IDs : LoadAccount(accountID)
    \/ \E h \in Ptrs : GetStatement(h)

SpecStore == Init /\ [][NextStore]_vars

\* ---- statements of accounts with a history -------------------------------
\* account a after a Deposit, and after a Withdraw, that passed its checks
Deposited(a, amount) ==
    AddTransaction([a EXCEPT !.Balance = FAdd(@, amount)],
                   DepositType, amount, Description("deposit", NoID))

Withdrawn(a, amount) ==
    AddTransaction([a EXCEPT !.Balance = FSub(@, amount)],
                   WithdrawType, amount, Description("withdraw", NoID))

\* the accounts that up to n Deposit and Withdraw calls make of a new account
RECURSIVE Ledger(_)
Ledger(n) ==
    IF n = 0 THEN {NewAccount("owner", 0)}
    ELSE LET before == Ledger(n - 1)
         IN  before
             \cup {Deposited(a, x) : a \in before,
                       x \in {y \in Amounts : ~FLe(y, Zero)}}
             \cup UNION {{Withdrawn(a, x) :
                             x \in {y \in Amounts : /\ ~FLe(y, Zero)
                                                    /\ ~FLt(a.Balance, y)}} :
                         a \in before}

\* one stored account after up to MaxHistory Deposit and Withdraw calls; calls
\* counts the GetStatement calls that follow
InitStatement ==
    /\ heap \in {<<a>> : a \in Ledger(MaxHistory)}
    /\ accounts = SaveAccount(<<>>, 1, generateID(0), nil)
    /\ calls = 0
    /\ ret = Call("none", 0, 0, Zero, nil)
    /\ saves = <<>>
    /\ got = NoRead
    /\ mutex = Unlocked
    /\ threads = [t \in Threads |-> Off]

NextStatement == \E h \in Ptrs : GetStatement(h)

SpecStatement == InitStatement /\ [][NextStatement]_vars

\* ---- the operations, statement by statement, as one thread runs them ------
\* Nothing but MemoryStorage.mutex orders the threads: the fields of an
\* Account are read and written without a lock, so every load and store of
\* Balance and of Transactions is a step of its own.  A thread's record holds
\* its position pc, the operation op it runs with its arguments (home is the
\* service's account, to and amount the arguments of the service call, id the
\* argument of LoadAccount), what its loads returned (bal, txs), the receiver
\* a of the AddTransaction call it is in, the argument account of the
\* SaveAccount call it is in, and what the call returned (result, list, err).
Goto(t, pc) == [threads EXCEPT ![t].pc = pc]

Return(t, err) == [threads EXCEPT ![t].pc = "done", ![t].err = err]

\* if amount <= 0 { return ErrInvalidAmount }
WithdrawCheckAmount(t) ==
    /\ threads[t].pc = "Withdraw"
    /\ threads' = IF FLe(threads[t].amount, Zero)
                  THEN Return(t, ErrInvalidAmount)
                  ELSE Goto(t, "CheckFunds")
    /\ UNCHANGED <<heap, accounts, calls, ret, saves, got, mutex>>

\* if s.account.Balance < amount { return ErrInsufficientFunds }
WithdrawCheckFunds(t) ==
    /\ threads[t].pc = "CheckFunds"
    /\ threads' = IF FLt(heap[threads[t].home].Balance, threads[t].amount)
                  THEN Return(t, ErrInsufficientFunds)
                  ELSE Goto(t, "LoadBalance")
    /\ UNCHANGED <<heap, accounts, calls, ret, saves, got, mutex>>

\* s.account.Balance -= amount: the load
WithdrawLoadBalance(t) ==
    /\ threads[t].pc = "LoadBalance"
    /\ threads' = [threads EXCEPT ![t].pc = "StoreBalance",
                                  ![t].bal = heap[threads[t].home].Balance]
    /\ UNCHANGED <<heap, accounts, calls, ret, saves, got, mutex>>

\* s.account.Balance -= amount: the store; then AddTransaction is called
WithdrawStoreBalance(t) ==
    /\ threads[t].pc = "StoreBalance"
    /\ heap' = [heap EXCEPT ![threads[t].home].Balance =
                   FSub(threads[t].bal, threads[t].amount)]
    /\ threads' = [threads EXCEPT ![t].pc = "LoadTransactions",
                                  ![t].a = threads[t].home]
    /\ UNCHANGED <<accounts, calls, ret, saves, got, mutex>>

\* the arguments of the AddTransaction call thread t is in, and the statement
\* that follows the call
TypeOf(t) ==
    CASE threads[t].op = "Deposit" -> DepositType
      [] threads[t].op = "Withdraw" -> WithdrawType
      [] threads[t].op = "Transfer" -> TransferType

DescriptionOf(t) ==
    CASE threads[t].op = "Deposit" -> Description("deposit", NoID)
      [] threads[t].op = "Withdraw" -> Description("withdraw", NoID)
      [] threads[t].op = "Transfer" ->
            IF threads[t].a = threads[t].home
            THEN Description("transfer to", heap[threads[t].to].ID)
            ELSE Description("transfer from", heap[threads[t].home].ID)

AfterAddTransaction(t) ==
    IF threads[t].op = "Transfer" /\ threads[t].a = threads[t].home
    THEN [threads EXCEPT ![t].pc = "LoadCredit"]
    ELSE [threads EXCEPT ![t].pc = "Lock", ![t].account = threads[t].home]

\* AddTransaction: append(a.Transactions, transaction) reads the slice
AddTransactionLoad(t) ==
    /\ threads[t].pc = "LoadTransactions"
    /\ threads' = [threads EXCEPT
                      ![t].pc = "StoreTransactions",
                      ![t].txs = heap[threads[t].a].Transactions]
    /\ UNCHANGED <<heap, accounts, calls, ret, saves, got, mutex>>

\* AddTransaction: a.Transactions = the slice with the transaction appended
AddTransactionStore(t) ==
    /\ threads[t].pc = "StoreTransactions"
    /\ heap' = [heap EXCEPT ![threads[t].a] =
                   AddTransaction([@ EXCEPT !.Transactions = threads[t].txs],
                                  TypeOf(t), threads[t].amount,
                                  DescriptionOf(t))]
    /\ threads' = AfterAddTransaction(t)
    /\ UNCHANGED <<accounts, calls, ret, saves, got, mutex>>

\* SaveAccount that enters without waiting for the mutex
SaveAccountLock_NoWait(t) ==
    /\ threads[t].pc = "Lock"
    /\ mutex' = [mutex EXCEPT !.w = t]
    /\ threads' = Goto(t, "Store")
    /\ UNCHANGED <<heap, accounts, calls, ret, saves, got>>

\* SaveAccount: s.mutex.Lock()
SaveAccountLock(t) ==
    /\ threads[t].pc = "Lock"
    /\ mutex = Unlocked
    /\ mutex' = [mutex EXCEPT !.w = t]
    /\ threads' = Goto(t, "Store")
    /\ UNCHANGED <<heap, accounts, calls, ret, saves, got>>

\* SaveAccount: s.accounts[account.ID] = account
SaveAccountStore(t) ==
    /\ threads[t].pc = "Store"
    /\ accounts' = SaveAccount(accounts, threads[t].account,
                               heap[threads[t].account].ID, nil)
    /\ threads' = Goto(t, "Unlock")
    /\ UNCHANGED <<heap, calls, ret, saves, got, mutex>>

\* SaveAccount that returns without Unlock
SaveAccountUnlock_Missing(t) ==
    /\ threads[t].pc = "Unlock"
    /\ threads' = IF /\ threads[t].op = "Transfer"
                     /\ threads[t].account = threads[t].home
                  THEN [threads EXCEPT ![t].pc = "Lock",
                                       ![t].account = threads[t].to]
                  ELSE Return(t, nil)
    /\ UNCHANGED <<heap, accounts, calls, ret, saves, got, mutex>>

\* SaveAccount: the deferred s.mutex.Unlock(), and return nil; Transfer goes
\* on from SaveAccount(s.account) to SaveAccount(to), every other caller
\* returns what SaveAccount returned
SaveAccountUnlock(t) ==
    /\ threads[t].pc = "Unlock"
    /\ mutex' = [mutex EXCEPT !.w = 0]
    /\ threads' = IF /\ threads[t].op = "Transfer"
                     /\ threads[t].account = threads[t].home
                  THEN [threads EXCEPT ![t].pc = "Lock",
                                       ![t].account = threads[t].to]
                  ELSE Return(t, nil)
    /\ UNCHANGED <<heap, accounts, calls, ret, saves, got>>

\* N threads, each entering Withdraw(1) on one account that holds N
InitWithdrawN ==
    \E n \in 1..NThreads :
        /\ heap = <<AddTransaction(
                       [NewAccount("owner", 0) EXCEPT !.Balance = Fin(n)],
                       DepositType, Fin(n), Description("deposit", NoID))>>
        /\ accounts = SaveAccount(<<>>, 1, generateID(0), nil)
        /\ calls = 1
        /\ ret = Call("Deposit", 1, 0, Fin(n), nil)
        /\ saves = <<[account |-> 1, err |-> nil]>>
        /\ got = NoRead
        /\ mutex = Unlocked
        /\ threads = [t \in Threads |->
                         IF t <= n
                         THEN [Off EXCEPT !.pc = "Withdraw",
                                          !.op = "Withdraw", !.home = 1,
                                          !.amount = Fin(1)]
                         ELSE Off]

NextWithdrawN ==
    \E t \in Threads :
        \/ WithdrawCheckAmount(t)
        \/ WithdrawCheckFunds(t)
        \/ WithdrawLoadBalance(t)
        \/ WithdrawStoreBalance(t)
        \/ AddTransactionLoad(t)
        \/ AddTransactionStore(t)
        \/ SaveAccountLock(t)
        \/ SaveAccountStore(t)
        \/ SaveAccountUnlock(t)

SpecWithdrawN == InitWithdrawN /\ [][NextWithdrawN]_vars

\* ---- Deposit --------------------------------------------------------------
\* if amount <= 0 { return ErrInvalidAmount }
DepositCheckAmount(t) ==
    /\ threads[t].pc = "Deposit"
    /\ threads' = IF FLe(threads[t].amount, Zero)
                  THEN Return(t, ErrInvalidAmount)
                  ELSE Goto(t, "LoadDeposit")
    /\ UNCHANGED <<heap, accounts, calls, ret, saves, got, mutex>>

\* s.account.Balance += amount: the load
DepositLoadBalance(t) ==
    /\ threads[t].pc = "LoadDeposit"
    /\ threads' = [threads EXCEPT ![t].pc = "StoreDeposit",
                                  ![t].bal = heap[threads[t].home].Balance]
    /\ UNCHANGED <<heap, accounts, calls, ret, saves, got, mutex>>

\* Deposit on a service variable that all threads share and that is bound
\* to the first account: the store goes to that account
DepositStoreBalance_Shared(t) ==
    /\ threads[t].pc = "StoreDeposit"
    /\ heap' = [heap EXCEPT ![1].Balance =
                   FAdd(threads[t].bal, threads[t].amount)]
    /\ threads' = [threads EXCEPT ![t].pc = "LoadTransactions",
                                  ![t].a = threads[t].home]
    /\ UNCHANGED <<accounts, calls, ret, saves, got, mutex>>

\* s.account.Balance += amount: the store; then AddTransaction is called
DepositStoreBalance(t) ==
    /\ threads[t].pc = "StoreDeposit"
    /\ heap' = [heap EXCEPT ![threads[t].home].Balance =
                   FAdd(threads[t].bal, threads[t].amount)]
    /\ threads' = [threads EXCEPT ![t].pc = "LoadTransactions",
                                  ![t].a = threads[t].home]
    /\ UNCHANGED <<accounts, calls, ret, saves, got, mutex>>

\* ---- Transfer -------------------------------------------------------------
\* if amount <= 0 { return ErrInvalidAmount }
TransferCheckAmount(t) ==
    /\ threads[t].pc = "Transfer"
    /\ threads' = IF FLe(threads[t].amount, Zero)
                  THEN Return(t, ErrInvalidAmount)
                  ELSE Goto(t, "TransferFunds")
    /\ UNCHANGED <<heap, accounts, calls, ret, saves, got, mutex>>

\* if s.account.Balance < amount { return ErrInsufficientFunds }
TransferCheckFunds(t) ==
    /\ threads[t].pc = "TransferFunds"
    /\ threads' = IF FLt(heap[threads[t].home].Balance, threads[t].amount)
                  THEN Return(t, ErrInsufficientFunds)
                  ELSE Goto(t, "TransferSame")
    /\ UNCHANGED <<heap, accounts, calls, ret, saves, got, mutex>>

\* if s.account.ID == to.ID { return ErrSameAccountTransfer }
TransferCheckSame(t) ==
    /\ threads[t].pc = "TransferSame"
    /\ threads' = IF heap[threads[t].home].ID = heap[threads[t].to].ID
                  THEN Return(t, ErrSameAccountTransfer)
                  ELSE Goto(t, "LoadDebit")
    /\ UNCHANGED <<heap, accounts, calls, ret, saves, got, mutex>>

\* s.account.Balance -= amount: the load
TransferLoadDebit(t) ==
    /\ threads[t].pc = "LoadDebit"
    /\ threads' = [threads EXCEPT ![t].pc = "StoreDebit",
                                  ![t].bal = heap[threads[t].home].Balance]
    /\ UNCHANGED <<heap, accounts, calls, ret, saves, got, mutex>>

\* s.account.Balance -= amount: the store; then s.account.AddTransaction
TransferStoreDebit(t) ==
    /\ threads[t].pc = "StoreDebit"
    /\ heap' = [heap EXCEPT ![threads[t].home].Balance =
                   FSub(threads[t].bal, threads[t].amount)]
    /\ threads' = [threads EXCEPT ![t].pc = "LoadTransactions",
                                  ![t].a = threads[t].home]
    /\ UNCHANGED <<accounts, calls, ret, saves, got, mutex>>

\* to.Balance += amount: the load
TransferLoadCredit(t) ==
    /\ threads[t].pc = "LoadCredit"
    /\ threads' = [threads EXCEPT ![t].pc = "StoreCredit",
                                  ![t].bal = heap[threads[t].to].Balance]
    /\ UNCHANGED <<heap, accounts, calls, ret, saves, got, mutex>>

\* to.Balance += amount: the store; then to.AddTransaction
TransferStoreCredit(t) ==
    /\ threads[t].pc = "StoreCredit"
    /\ heap' = [heap EXCEPT ![threads[t].to].Balance =
                   FAdd(threads[t].bal, threads[t].amount)]
    /\ threads' = [threads EXCEPT ![t].pc = "LoadTransactions",
                                  ![t].a = threads[t].to]
    /\ UNCHANGED <<accounts, calls, ret, saves, got, mutex>>

\* ---- LoadAccount and GetAllAccounts ---------------------------------------
\* LoadAccount: s.mutex.RLock()
LoadAccountRLock(t) ==
    /\ threads[t].pc = "RLock"
    /\ mutex.w = 0
    /\ mutex' = [mutex EXCEPT !.r = @ \cup {t}]
    /\ threads' = Goto(t, "Lookup")
    /\ UNCHANGED <<heap, accounts, calls, ret, saves, got>>

\* LoadAccount: account, exists := s.accounts[accountID]
LoadAccountLookup(t) ==
    /\ threads[t].pc = "Lookup"
    /\ threads' = IF threads[t].id \in DOMAIN accounts
                  THEN [threads EXCEPT ![t].pc = "RUnlock",
                                       ![t].result = accounts[threads[t].id],
                                       ![t].err = nil]
                  ELSE [threads EXCEPT ![t].pc = "RUnlock",
                                       ![t].result = 0,
                                       ![t].err = ErrAccountNotFound]
    /\ UNCHANGED <<heap, accounts, calls, ret, saves, got, mutex>>

\* LoadAccount: the deferred s.mutex.RUnlock(), and the return
LoadAccountRUnlock(t) ==
    /\ threads[t].pc = "RUnlock"
    /\ mutex' = [mutex EXCEPT !.r = @ \ {t}]
    /\ threads' = Goto(t, "done")
    /\ UNCHANGED <<heap, accounts, calls, ret, saves, got>>

\* GetAllAccounts: s.mutex.RLock()
GetAllAccountsRLock(t) ==
    /\ threads[t].pc = "RLockAll"
    /\ mutex.w = 0
    /\ mutex' = [mutex EXCEPT !.r = @ \cup {t}]
    /\ threads' = Goto(t, "Range")
    /\ UNCHANGED <<heap, accounts, calls, ret, saves, got>>

\* the orders in which a range over the map may visit its keys
Orders(m) ==
    {o \in [1..Cardinality(DOMAIN m) -> DOMAIN m] :
        \A i, j \in DOMAIN o : i # j => o[i] # o[j]}

\* GetAllAccounts: the loop that appends every stored pointer, in the order
\* the range over the map yields them
GetAllAccountsRange(t) ==
    /\ threads[t].pc = "Range"
    /\ \E o \in Orders(accounts) :
           threads' = [threads EXCEPT
                          ![t].pc = "RUnlockAll",
                          ![t].list = [i \in DOMAIN o |-> accounts[o[i]]]]
    /\ UNCHANGED <<heap, accounts, calls, ret, saves, got, mutex>>

\* GetAllAccounts: the deferred s.mutex.RUnlock(), and return accounts, nil
GetAllAccountsRUnlock(t) ==
    /\ threads[t].pc = "RUnlockAll"
    /\ mutex' = [mutex EXCEPT !.r = @ \ {t}]
    /\ threads' = Return(t, nil)
    /\ UNCHANGED <<heap, accounts, calls, ret, saves, got>>

\* ---- the holder of a loaded account reads it ------------------------------
\* the caller of LoadAccount reads the Balance of the account it was given,
\* as GetStatement and selectAccount do
ReadBalance(t) ==
    /\ threads[t].pc = "done"
    /\ threads[t].op = "LoadAccount"
    /\ threads[t].err = nil
    /\ threads' = [threads EXCEPT ![t].pc = "ReadTransactions",
                                  ![t].bal = heap[threads[t].result].Balance]
    /\ UNCHANGED <<heap, accounts, calls, ret, saves, got, mutex>>

\* and then its Transactions, as GetStatement does
ReadTransactions(t) ==
    /\ threads[t].pc = "ReadTransactions"
    /\ threads' = [threads EXCEPT
                      ![t].pc = "seen",
                      ![t].txs = heap[threads[t].result].Transactions]
    /\ UNCHANGED <<heap, accounts, calls, ret, saves, got, mutex>>

\* ---- threads that run the operations concurrently -------------------------
\* a thread about to execute the first statement of a call
Entry(op) ==
    CASE op = "Deposit" -> "Deposit"
      [] op = "Withdraw" -> "Withdraw"
      [] op = "Transfer" -> "Transfer"
      [] op = "SaveAccount" -> "Lock"
      [] op = "LoadAccount" -> "RLock"
      [] op = "GetAllAccounts" -> "RLockAll"

Start(op, h, to, amount, id) ==
    [Off EXCEPT !.pc = Entry(op), !.op = op, !.home = h, !.to = to,
                !.amount = amount, !.id = id, !.account = h]

\* an account created at clock reading now, after Deposit(1)
Funded(now) ==
    AddTransaction([NewAccount("owner", now) EXCEPT !.Balance = Fin(1)],
                   DepositType, Fin(1), Description("deposit", NoID))

\* the calls a thread may make on two funded accounts
Menu ==
    {Start("Deposit", h, 0, Fin(1), NoID) : h \in 1..2}
    \cup {Start("Withdraw", h, 0, Fin(1), NoID) : h \in 1..2}
    \cup {Start("Transfer", h, to, Fin(1), NoID) : h \in 1..2, to \in 1..2}
    \cup {Start("LoadAccount", 0, 0, Zero, id) : id \in IDs}
    \cup {Start("GetAllAccounts", 0, 0, Zero, NoID)}

\* two accounts with distinct IDs, each created, saved and holding 1; every
\* thread enters one call
InitThreads ==
    /\ heap = <<Funded(0), Funded(1)>>
    /\ accounts = SaveAccount(SaveAccount(<<>>, 1, generateID(0), nil),
                              2, generateID(1), nil)
    /\ calls = 2
    /\ ret = Call("Deposit", 2, 0, Fin(1), nil)
    /\ saves = <<[account |-> 2, err |-> nil]>>
    /\ got = NoRead
    /\ mutex = Unlocked
    /\ threads \in [Threads -> Menu]

StepThreads(t) ==
    \/ DepositCheckAmount(t)
    \/ DepositLoadBalance(t)
    \/ DepositStoreBalance(t)
    \/ WithdrawCheckAmount(t)
    \/ WithdrawCheckFunds(t)
    \/ WithdrawLoadBalance(t)
    \/ WithdrawStoreBalance(t)
    \/ TransferCheckAmount(t)
    \/ TransferCheckFunds(t)
    \/ TransferCheckSame(t)
    \/ TransferLoadDebit(t)
    \/ TransferStoreDebit(t)
    \/ TransferLoadCredit(t)
    \/ TransferStoreCredit(t)
    \/ AddTransactionLoad(t)
    \/ AddTransactionStore(t)
    \/ SaveAccountLock(t)
    \/ SaveAccountStore(t)
    \/ SaveAccountUnlock(t)
    \/ LoadAccountRLock(t)
    \/ LoadAccountLookup(t)
    \/ LoadAccountRUnlock(t)
    \/ GetAllAccountsRLock(t)
    \/ GetAllAccountsRange(t)
    \/ GetAllAccountsRUnlock(t)
    \/ ReadBalance(t)
    \/ ReadTransactions(t)

NextThreads == \E t \in Threads : StepThreads(t)

\* the scheduler is fair to every thread
SpecThreads ==
    /\ InitThreads
    /\ [][NextThreads]_vars
    /\ \A t \in Threads : WF_vars(StepThreads(t))

\* ---- threads that call the storage ----------------------------------------
MenuStorage ==
    {Start("SaveAccount", p, 0, Zero, NoID) : p \in 1..2}
    \cup {Start("LoadAccount", 0, 0, Zero, id) : id \in IDs}
    \cup {Start("GetAllAccounts", 0, 0, Zero, NoID)}

\* account 1 is created, saved and holds 1; createAccount has made account 2
\* and not yet saved it; every thread enters one call of the storage
InitStorage ==
    /\ heap = <<Funded(0), NewAccount("owner", 1)>>
    /\ accounts = SaveAccount(<<>>, 1, generateID(0), nil)
    /\ calls = 1
    /\ ret = Call("Deposit", 1, 0, Fin(1), nil)
    /\ saves = <<[account |-> 1, err |-> nil]>>
    /\ got = NoRead
    /\ mutex = Unlocked
    /\ threads \in [Threads -> MenuStorage]

NextStorage ==
    \E t \in Threads :
        \/ SaveAccountLock(t)
        \/ SaveAccountStore(t)
        \/ SaveAccountUnlock(t)
        \/ LoadAccountRLock(t)
        \/ LoadAccountLookup(t)
        \/ LoadAccountRUnlock(t)
        \/ GetAllAccountsRLock(t)
        \/ GetAllAccountsRange(t)
        \/ GetAllAccountsRUnlock(t)

SpecStorage == InitStorage /\ [][NextStorage]_vars

\* ---- threads that work on accounts of their own ---------------------------
\* one thread per account, as many as there are threads and accounts
Workers == 1..(IF NThreads < MaxAccounts THEN NThreads ELSE MaxAccounts)

\* the clock readings of the NewAccount calls, none earlier than the one
\* before it
Clocks ==
    {c \in [Workers -> 0..MaxClock] :
        \A p \in Workers : p > 1 => c[p] >= c[p - 1]}

\* an account as createAccount made it at reading now, or after Deposit(1)
Initials(now) ==
    {NewAccount("owner", now), Deposited(NewAccount("owner", now), Fin(1))}

\* the store after createAccount has saved accounts 1 to n in turn
RECURSIVE Created(_, _)
Created(h, n) ==
    IF n = 0 THEN <<>> ELSE SaveAccount(Created(h, n - 1), n, h[n].ID, nil)

\* thread t enters Deposit or Withdraw on account t
InitDisjoint ==
    /\ \E c \in Clocks :
           heap \in [Workers -> UNION {Initials(n) : n \in 0..MaxClock}]
           /\ \A p \in Workers : heap[p].ID = generateID(c[p])
    /\ accounts = Created(heap, Len(heap))
    /\ calls = Cardinality({p \in Workers : heap[p].Transactions # <<>>})
    /\ ret = Call("none", 0, 0, Zero, nil)
    /\ saves = <<>>
    /\ got = NoRead
    /\ mutex = Unlocked
    /\ \E op \in [Workers -> {"Deposit", "Withdraw"}],
          amount \in [Workers -> {Fin(0), Fin(1)}] :
           threads = [t \in Threads |->
                         IF t \in Workers
                         THEN Start(op[t], t, 0, amount[t], NoID)
                         ELSE Off]

NextDisjoint ==
    \E t \in Threads :
        \/ DepositCheckAmount(t)
        \/ DepositLoadBalance(t)
        \/ DepositStoreBalance(t)
        \/ WithdrawCheckAmount(t)
        \/ WithdrawCheckFunds(t)
        \/ WithdrawLoadBalance(t)
        \/ WithdrawStoreBalance(t)
        \/ AddTransactionLoad(t)
        \/ AddTransactionStore(t)
        \/ SaveAccountLock(t)
        \/ SaveAccountStore(t)
        \/ SaveAccountUnlock(t)

SpecDisjoint == InitDisjoint /\ [][NextDisjoint]_vars

\* ---- C1 ---------------------------------------------------------------------
\* C1: after any sequence of Deposit, Withdraw and Transfer calls, each run
\* to completion, every account satisfies balance >= 0.
C1_BalanceNonNegative ==
    \A p \in Ptrs : FLe(Zero, heap[p].Balance)

\* ---- C2 ---------------------------------------------------------------------
Started == {t \in Threads : threads[t].pc # "off"}

AllReturned == \A t \in Started : threads[t].pc = "done"

WithdrawCount(p) ==
    Cardinality({i \in 1..Len(heap[p].Transactions) :
                    heap[p].Transactions[i].Type = WithdrawType})

\* C2: N threads each call Withdraw(1) on an account that holds N: the
\* balance is never negative, and once all have returned the balance is 0 and
\* the history holds exactly N Withdraw transactions.
C2_NoLostUpdates ==
    /\ FLe(Zero, heap[1].Balance)
    /\ AllReturned =>
          /\ FEq(heap[1].Balance, Zero)
          /\ WithdrawCount(1) = Cardinality(Started)

\* ---- steps of the sequential specification that are service calls ---------
\* the step is a service call: every call, and no other step, counts in calls
IsAnyCall == calls' = calls + 1

\* the step is a call of op
IsCall(op) == IsAnyCall /\ ret'.op = op

\* history new is history old with one transaction of type tType and the
\* given amount appended
AppendedOne(old, new, tType, amount) ==
    /\ Len(new) = Len(old) + 1
    /\ SubSeq(new, 1, Len(old)) = old
    /\ new[Len(new)].Type = tType
    /\ FEq(new[Len(new)].Amount, amount)

\* ---- C3 ---------------------------------------------------------------------
\* C3: a successful Transfer(to, amount) from A to a different account B with
\* 0 < amount <= A.balance lowers A.balance by exactly amount, raises
\* B.balance by exactly amount, keeps A.balance + B.balance, appends exactly
\* one Transfer transaction of that amount to A's and to B's history and
\* changes no other account.
C3_TransferMovesAmount ==
    [][(/\ IsCall("Transfer")
        /\ ret'.err = nil
        /\ ret'.home # ret'.to
        /\ FLt(Zero, ret'.amount)
        /\ FLe(ret'.amount, heap[ret'.home].Balance))
       => LET A == ret'.home
              B == ret'.to
              amount == ret'.amount
          IN  /\ FEq(FSub(heap[A].Balance, heap'[A].Balance), amount)
              /\ FEq(FSub(heap'[B].Balance, heap[B].Balance), amount)
              /\ FEq(FAdd(heap'[A].Balance, heap'[B].Balance),
                     FAdd(heap[A].Balance, heap[B].Balance))
              /\ AppendedOne(heap[A].Transactions, heap'[A].Transactions,
                             TransferType, amount)
              /\ AppendedOne(heap[B].Transactions, heap'[B].Transactions,
                             TransferType, amount)
              /\ \A p \in Ptrs \ {A, B} : heap'[p] = heap[p]]_vars

\* ---- C4 ---------------------------------------------------------------------
\* C4: Withdraw(amount) with amount > balance returns InsufficientFunds,
\* leaves balance and history as they were and calls no SaveAccount.
C4_WithdrawInsufficient ==
    [][(IsCall("Withdraw") /\ FLt(heap[ret'.home].Balance, ret'.amount))
       => /\ ret'.err = ErrInsufficientFunds
          /\ heap' = heap
          /\ accounts' = accounts
          /\ saves' = <<>>]_vars

\* a Withdraw of more than a positive balance has been refused
C4_Witness ==
    /\ ret.op = "Withdraw"
    /\ ret.err = ErrInsufficientFunds
    /\ FLt(Zero, heap[ret.home].Balance)
    /\ FLt(heap[ret.home].Balance, ret.amount)
    /\ heap[ret.home].Transactions # <<>>

\* ---- C5 ---------------------------------------------------------------------
\* C5: for every amount <= 0, Deposit, Withdraw and Transfer return
\* InvalidAmount and leave every account's balance and history unchanged.
C5_InvalidAmount ==
    [][(IsAnyCall /\ FLe(ret'.amount, Zero))
       => /\ ret'.err = ErrInvalidAmount
          /\ heap' = heap
          /\ accounts' = accounts]_vars

\* Deposit(0) has been refused on an account that has a history
C5_Witness ==
    /\ ret.op = "Deposit"
    /\ ret.amount = Zero
    /\ ret.err = ErrInvalidAmount
    /\ heap[ret.home].Transactions # <<>>

\* ---- C6 ---------------------------------------------------------------------
\* C6: Transfer to an account with the ID of the home account, for an amount
\* with 0 < amount <= balance, returns SameAccountTransfer and leaves balance
\* and history unchanged.
C6_SelfTransfer ==
    [][(/\ IsCall("Transfer")
        /\ heap[ret'.home].ID = heap[ret'.to].ID
        /\ FLt(Zero, ret'.amount)
        /\ FLe(ret'.amount, heap[ret'.home].Balance))
       => /\ ret'.err = ErrSameAccountTransfer
          /\ heap' = heap
          /\ accounts' = accounts]_vars

\* a transfer of an affordable positive amount to the home account itself
\* has been refused
C6_Witness ==
    /\ ret.op = "Transfer"
    /\ ret.home = ret.to
    /\ ret.err = ErrSameAccountTransfer
    /\ FLt(Zero, ret.amount)
    /\ FLe(ret.amount, heap[ret.home].Balance)

\* ---- C7 ---------------------------------------------------------------------
\* C7: Transfer checks the amount, then the funds, then the accounts: a
\* self-transfer with amount <= 0 returns InvalidAmount, one with
\* amount > balance returns InsufficientFunds, and SameAccountTransfer is
\* returned only when 0 < amount <= home balance.
C7_ValidationOrder ==
    [][IsCall("Transfer")
       => LET self == heap[ret'.home].ID = heap[ret'.to].ID
              amount == ret'.amount
              balance == heap[ret'.home].Balance
          IN  /\ (self /\ FLe(amount, Zero)) => ret'.err = ErrInvalidAmount
              /\ (self /\ FLt(balance, amount))
                    => ret'.err = ErrInsufficientFunds
              /\ ret'.err = ErrSameAccountTransfer
                    => (FLt(Zero, amount) /\ FLe(amount, balance))]_vars

\* ---- C8 ---------------------------------------------------------------------
\* C8: every successful Deposit(a) raises the home balance by exactly a and
\* appends exactly one Deposit transaction of amount a at the end of the
\* history; so Deposit(a) then Deposit(b) on a fresh account gives balance
\* a + b and a history of two Deposit transactions, a then b.
C8_DepositAdds ==
    [][(IsCall("Deposit") /\ ret'.err = nil)
       => LET h == ret'.home
              a == ret'.amount
          IN  /\ FEq(FSub(heap'[h].Balance, heap[h].Balance), a)
              /\ AppendedOne(heap[h].Transactions, heap'[h].Transactions,
                             DepositType, a)
              /\ (/\ ret.op = "Deposit" /\ ret.err = nil /\ ret.home = h
                  /\ Len(heap[h].Transactions) = 1)
                 => /\ FEq(heap'[h].Balance, FAdd(ret.amount, a))
                    /\ Len(heap'[h].Transactions) = 2
                    /\ FEq(heap'[h].Transactions[1].Amount, ret.amount)
                    /\ FEq(heap'[h].Transactions[2].Amount, a)]_vars

\* ---- C9 ---------------------------------------------------------------------
\* C9: Transfer persists the home account before the destination; when
\* SaveAccount(home) fails, Transfer returns that error, SaveAccount of the
\* destination is never called, and the debit of home and the credit of the
\* destination (balances and both transactions) stay in memory.
C9_TransferSaveOrder ==
    [][(IsCall("Transfer") /\ saves' # <<>>)
       => LET h == ret'.home
              to == ret'.to
              amount == ret'.amount
          IN  /\ saves'[1].account = h
              /\ Len(saves') = 2 => saves'[2].account = to
              /\ saves'[1].err # nil
                    => /\ ret'.err = saves'[1].err
                       /\ Len(saves') = 1
                       /\ accounts' = accounts
                       /\ heap'[h].Balance = FSub(heap[h].Balance, amount)
                       /\ heap'[to].Balance = FAdd(heap[to].Balance, amount)
                       /\ Len(heap'[h].Transactions)
                             = Len(heap[h].Transactions) + 1
                       /\ Len(heap'[to].Transactions)
                             = Len(heap[to].Transactions) + 1]_vars

\* a transfer of 1 whose SaveAccount(home) failed: home is debited, the
\* destination credited
C9_Witness ==
    /\ ret.op = "Transfer"
    /\ ret.err = ErrStorageIO
    /\ ret.amount = Fin(1)
    /\ Len(saves) = 1
    /\ saves[1].account = ret.home
    /\ heap[ret.to].Balance = Fin(1)
    /\ heap[ret.home].Balance = Zero

\* ---- C10 --------------------------------------------------------------------
\* C10: when a SaveAccount issued by Deposit, Withdraw or Transfer returns an
\* error, the operation returns exactly that error; when validation passes
\* and every SaveAccount succeeds, it returns no error.
C10_StorageErrorSurfaced ==
    [][IsAnyCall
       => /\ \A i \in DOMAIN saves' :
                saves'[i].err # nil => ret'.err = saves'[i].err
          /\ (heap' # heap /\ \A i \in DOMAIN saves' : saves'[i].err = nil)
                => ret'.err = nil]_vars

\* a Transfer whose second SaveAccount failed has returned that error
C10_Witness ==
    /\ ret.op = "Transfer"
    /\ Len(saves) = 2
    /\ saves[1].err = nil
    /\ saves[2].err = ErrStorageFull
    /\ ret.err = ErrStorageFull

\* C11: LoadAccount(id) returns ErrAccountNotFound and no account exactly when
\* no SaveAccount of an account with that ID has completed before it, and the
\* stored account otherwise; no step removes an entry of the store, an entry
\* appears only when a SaveAccount of that ID completes, and every SaveAccount
\* that completes leaves its ID in the store.
IsRead(op) == calls' = calls + 1 /\ got'.op = op /\ got'.call = calls'

\* the IDs whose SaveAccount completed in this step: the one createAccount
\* made, and those the service call saved without an error
SavedInStep ==
    {heap'[p].ID : p \in (DOMAIN heap') \ (DOMAIN heap)}
    \cup IF calls' = calls + 1 /\ ~IsRead(got'.op)
         THEN {heap[saves'[i].account].ID :
                  i \in {j \in DOMAIN saves' : saves'[j].err = nil}}
         ELSE {}

C11_LoadAccountFound ==
    [][/\ DOMAIN accounts \subseteq DOMAIN accounts'
       /\ (DOMAIN accounts') \ (DOMAIN accounts) \subseteq SavedInStep
       /\ SavedInStep \subseteq DOMAIN accounts'
       /\ IsRead("LoadAccount") =>
              IF got'.id \in DOMAIN accounts
              THEN got'.err = nil /\ got'.account = accounts[got'.id]
              ELSE got'.err = ErrAccountNotFound /\ got'.account = 0]_vars

\* a LoadAccount of a saved ID returned the stored account, after a Deposit
\* on it, while another ID is still absent from the store
C11_Witness ==
    /\ got.op = "LoadAccount"
    /\ got.err = nil
    /\ got.call = 2
    /\ ret.op = "Deposit"
    /\ accounts[got.id] = got.account
    /\ heap[got.account].ID = got.id
    /\ \E id \in IDs : id \notin DOMAIN accounts

\* a LoadAccount of an ID that was never saved
C11_WitnessNotFound ==
    /\ got.op = "LoadAccount"
    /\ got.err = ErrAccountNotFound
    /\ got.account = 0
    /\ accounts # <<>>

\* ---- the balance a history accounts for -----------------------------------
IsDeposit(tx) == tx.Type = DepositType

IsWithdraw(tx) == tx.Type = WithdrawType

IsIncoming(tx) == tx.Type = TransferType /\ tx.Description.text = "transfer from"

IsOutgoing(tx) == tx.Type = TransferType /\ tx.Description.text = "transfer to"

RECURSIVE SumAmounts(_)
SumAmounts(txs) ==
    IF txs = <<>> THEN Zero ELSE FAdd(SumAmounts(Tail(txs)), Head(txs).Amount)

\* deposits plus incoming transfers minus withdrawals minus outgoing transfers
HistoryBalance(txs) ==
    FSub(FSub(FAdd(SumAmounts(SelectSeq(txs, IsDeposit)),
                   SumAmounts(SelectSeq(txs, IsIncoming))),
              SumAmounts(SelectSeq(txs, IsWithdraw))),
         SumAmounts(SelectSeq(txs, IsOutgoing)))

\* C12: a thread that was given an account by LoadAccount while other threads
\* run Deposit, Withdraw or Transfer never reads a partially written account:
\* the Balance it reads is the balance that the Transactions it reads account
\* for.
C12_NoPartialRead ==
    \A t \in Threads :
        threads[t].pc = "seen" =>
            FEq(threads[t].bal, HistoryBalance(threads[t].txs))

\* ---- C13 --------------------------------------------------------------------
\* the threads between Lock and Unlock of SaveAccount, and those between
\* RLock and RUnlock of LoadAccount or GetAllAccounts
InSaveAccount == {t \in Threads : threads[t].pc \in {"Store", "Unlock"}}

InRead ==
    {t \in Threads : threads[t].pc \in {"Lookup", "RUnlock", "Range",
                                         "RUnlockAll"}}

\* C13: at most one thread is inside SaveAccount's critical section, and
\* while one is, no thread is inside the critical section of LoadAccount or
\* GetAllAccounts (several threads may be inside those at once: C13_Witness).
C13_ReadWriteLock ==
    /\ Cardinality(InSaveAccount) <= 1
    /\ InSaveAccount # {} => InRead = {}

\* a LoadAccount and a GetAllAccounts are inside their critical sections at
\* the same time
C13_Witness ==
    /\ \E t \in InRead : threads[t].op = "LoadAccount"
    /\ \E t \in InRead : threads[t].op = "GetAllAccounts"
    /\ Cardinality(InRead) >= 2

\* ---- C14 --------------------------------------------------------------------
\* the transaction type a service operation records
TypeOfCall(op) ==
    CASE op = "Deposit" -> DepositType
      [] op = "Withdraw" -> WithdrawType
      [] op = "Transfer" -> TransferType

\* account a shows the effect of the last service call: its last transaction
\* is that call's, and its balance is the one its history accounts for
ShowsLastCall(a) ==
    /\ a.Transactions # <<>>
    /\ a.Transactions[Len(a.Transactions)].Type = TypeOfCall(ret.op)
    /\ a.Transactions[Len(a.Transactions)].Amount = ret.amount
    /\ a.Balance = HistoryBalance(a.Transactions)

\* the accounts the last service call has changed
Mutated ==
    IF saves = <<>> THEN {}
    ELSE IF ret.op = "Transfer" THEN {ret.home, ret.to} ELSE {ret.home}

\* C14: LoadAccount returns the stored pointer itself: when the last Deposit,
\* Withdraw or Transfer has changed an account that the store holds, a
\* LoadAccount of its ID returns that account and the caller finds in it the
\* new history and balance, whether or not the operation's SaveAccount
\* succeeded.
C14_LoadAccountAliases ==
    [][IsRead("LoadAccount") =>
          \A p \in Mutated :
              (heap[p].ID = got'.id /\ got'.id \in DOMAIN accounts
                  /\ accounts[got'.id] = p)
              => /\ got'.err = nil
                 /\ got'.account = p
                 /\ ShowsLastCall(heap'[got'.account])]_vars

\* a LoadAccount after a Deposit whose SaveAccount failed
C14_Witness ==
    /\ got.op = "LoadAccount"
    /\ got.call = calls
    /\ ret.op = "Deposit"
    /\ ret.err \in {ErrStorageIO, ErrStorageFull}
    /\ got.err = nil
    /\ got.account = ret.home
    /\ ShowsLastCall(heap[got.account])

\* ---- C15 --------------------------------------------------------------------
\* the lines of a statement after its header
Body(lines) == SubSeq(lines, Len(StatementHeader(heap[1])) + 1, Len(lines))

\* C15: the statement GetStatement returns has the no-transactions line
\* exactly when the history is empty, and then nothing else after the header;
\* otherwise it has one line per transaction, in the order of the history;
\* the call leaves every balance, history and store entry as it was.
C15_StatementLines ==
    [][IsRead("GetStatement") =>
          LET txs == heap[got'.account].Transactions
              body == Body(got'.lines)
          IN  /\ (\E i \in DOMAIN got'.lines :
                     got'.lines[i].line = NoTransactionsLine.line)
                 <=> txs = <<>>
              /\ txs = <<>> =>
                     Len(body) = 1 /\ body[1].line = NoTransactionsLine.line
              /\ txs # <<>> =>
                     /\ Len(body) = Len(txs)
                     /\ \A i \in DOMAIN txs :
                            /\ body[i].line = TransactionLine(txs[i]).line
                            /\ body[i].text = TransactionLine(txs[i]).text
              /\ UNCHANGED <<heap, accounts>>]_vars

\* the statement of an account with a Deposit followed by a Withdraw
C15_Witness ==
    /\ got.op = "GetStatement"
    /\ Len(heap[got.account].Transactions) = 2
    /\ heap[got.account].Transactions[1].Type = DepositType
    /\ heap[got.account].Transactions[2].Type = WithdrawType
    /\ Len(got.lines) = 6
    /\ got.lines[5].text[1] = DepositType
    /\ got.lines[6].text[1] = WithdrawType

\* the statement of an account without transactions
C15_WitnessEmpty ==
    /\ got.op = "GetStatement"
    /\ heap[got.account].Transactions = <<>>
    /\ got.lines[Len(got.lines)].line = NoTransactionsLine.line

\* ---- C16 --------------------------------------------------------------------
\* C16: accounts made by distinct NewAccount calls have different IDs, also
\* when the clock gives two calls the same reading, so that every account
\* createAccount has saved is still the one stored under its ID.
C16_UniqueIDs ==
    \A p, q \in Ptrs :
        /\ p # q => heap[p].ID # heap[q].ID
        /\ accounts[heap[p].ID] = p

\* ---- C17 --------------------------------------------------------------------
IsPrefix(old, new) ==
    Len(old) <= Len(new) /\ SubSeq(new, 1, Len(old)) = old

\* C17: every step of every operation leaves each account's earlier history
\* as a prefix of its later history, and a step in which a call returns a
\* validation error leaves the history as it was.
C17_AppendOnly ==
    [][/\ \A p \in Ptrs :
              IsPrefix(heap[p].Transactions, heap'[p].Transactions)
       /\ \A t \in Threads :
              (threads[t].pc # "done" /\ threads'[t].pc = "done"
                  /\ threads'[t].err \in {ErrInvalidAmount,
                                          ErrInsufficientFunds,
                                          ErrSameAccountTransfer})
              => \A p \in Ptrs :
                     heap'[p].Transactions = heap[p].Transactions]_vars

\* ---- C18 --------------------------------------------------------------------
\* the call of thread t has returned
Returned(t) == threads[t].pc \in {"done", "ReadTransactions", "seen"}

\* thread t is at an acquisition of the mutex; thread t holds the mutex
Waiting(t) == threads[t].pc \in {"Lock", "RLock", "RLockAll"}

Holds(t) == mutex.w = t \/ t \in mutex.r

\* C18: under a fair scheduler every call of Deposit, Withdraw, Transfer,
\* LoadAccount, SaveAccount and GetAllAccounts returns, whatever the other
\* threads run (two Transfers in opposite directions included), and no thread
\* is ever at an acquisition of the mutex while it holds the mutex.
C18_Terminates ==
    /\ [](\A t \in Threads : Waiting(t) => ~Holds(t))
    /\ \A t \in Threads : <>Returned(t)

\* a Transfer from account 1 to 2 and a Transfer from 2 to 1, run
\* concurrently, have both returned nil
C18_Witness ==
    \E t, u \in Threads :
        /\ threads[t].op = "Transfer" /\ threads[u].op = "Transfer"
        /\ threads[t].home = 1 /\ threads[t].to = 2
        /\ threads[u].home = 2 /\ threads[u].to = 1
        /\ threads[t].pc = "done" /\ threads[u].pc = "done"
        /\ threads[t].err = nil /\ threads[u].err = nil

\* ---- C19 --------------------------------------------------------------------
\* C19: with the operations run one at a time from new accounts, each
\* account's balance equals the deposits plus the incoming transfers minus the
\* withdrawals minus the outgoing transfers recorded in its own history, also
\* after a SaveAccount that failed.  Equality is float64's ==.
C19_BalanceMatchesHistory ==
    \A p \in Ptrs :
        FEq(heap[p].Balance, HistoryBalance(heap[p].Transactions))

\* ---- C20 --------------------------------------------------------------------
\* account a and the error returned after op(amount) ran on it alone
RunAlone(a, op, amount) ==
    IF FLe(amount, Zero)
    THEN [account |-> a, err |-> ErrInvalidAmount]
    ELSE IF op = "Withdraw" /\ FLt(a.Balance, amount)
    THEN [account |-> a, err |-> ErrInsufficientFunds]
    ELSE [account |-> IF op = "Deposit" THEN Deposited(a, amount)
                                        ELSE Withdrawn(a, amount),
          err |-> nil]

\* the threads whose call saved an account with this ID
Savers(id) ==
    {t \in Workers : heap[t].ID = id /\ threads[t].err = nil}

\* C20: threads that run Deposit or Withdraw concurrently, each on an account
\* of its own, end under every interleaving as if the calls had run one
\* after the other: each account and each returned error is what the call
\* alone makes of the account, and the store holds under every ID an account
\* of that ID (the one a call saved last, where two accounts share an ID).
C20_DisjointAsSequential ==
    (\A t \in Workers : threads[t].pc = "done") =>
        /\ \A t \in Workers :
               \E a \in Initials(heap[t].ID.n) :
                   LET alone == RunAlone(a, threads[t].op, threads[t].amount)
                   IN  heap[t] = alone.account /\ threads[t].err = alone.err
        /\ DOMAIN accounts = {heap[p].ID : p \in Ptrs}
        /\ \A id \in DOMAIN accounts :
               IF Savers(id) = {}
               THEN accounts[id] = Created(heap, Len(heap))[id]
               ELSE accounts[id] \in Savers(id)

\* a Deposit on account 1 and a Withdraw on account 2, started together,
\* have both returned nil
C20_Witness ==
    /\ threads[1].op = "Deposit" /\ threads[2].op = "Withdraw"
    /\ threads[1].pc = "done" /\ threads[2].pc = "done"
    /\ threads[1].err = nil /\ threads[2].err = nil
    /\ heap[1].ID # heap[2].ID
    /\ Len(heap[1].Transactions) = 2 /\ Len(heap[2].Transactions) = 2

====
